---- MODULE Spec2Model ----
(***************************************************************************)
(* Model of shrev's growing ring buffer (src/src/storage.rs) and of the    *)
(* EventChannel facade that forwards to it (src/src/lib.rs).               *)
(*                                                                         *)
(* The buffer state is kept in the variables that carry the names of the   *)
(* fields of RingBuffer.  Written events are numbered 1, 2, 3, ... in the  *)
(* order in which they are written, so that loss, duplication and          *)
(* reordering are all visible in what a reader gets.  Variables whose      *)
(* comment says "history" do not exist in the program: they record what   *)
(* happened so that the properties can talk about it.                      *)
(***************************************************************************)
EXTENDS Integers, Sequences, FiniteSets, TLC

----------------------------------------------------------------------------
(* Bounds of the model.                                                    *)

\* largest capacity handed to RingBuffer::new
MaxInitSize == 2
\* largest number of elements of one write batch
MaxBatch == 3
\* number of events written in one behaviour
MaxEvents == 6
\* number of ReaderId handles that are live at the same time
MaxHandles == 2
\* width of usize in the model (the program has 64 or 32)
USizeBits == 12
\* largest size of the ring of a CircularIndex that is stepped on its own
MaxRing == 4
\* number of calls of step that are made after it has returned None
MaxNones == 3
\* width of usize of the small target on which the generation counter is
\* made to wrap
WrapBits == 3

\* RingBuffer::new asserts size > 1
MinInitSize == 2
\* the capacity of the buffer of test_reader_reuse
ScenarioCapacity == 3
\* the readers r1, r2, r3 of the tests all_dropped and recreated
ScenarioReaders == 3

\* the events of a behaviour in which the generation counter wraps: one
\* batch, and then as many batches of one element as usize has values
WrapEvents == 2 ^ WrapBits + MaxBatch

\* handle slot that holds no ReaderId
NoHandle == -1

VARIABLES
    stepped,        \* a CircularIndex that is stepped on its own: the index
                    \* (ci), the argument of step (inclusive_end) and, as
                    \* history, the index it started with (start), the
                    \* positions step has returned (returned) and the number
                    \* of calls that returned None (nones)
    usize_bits,     \* target_pointer_width: the width of usize of the target
                    \* the program was built for
    available,      \* RingBuffer.available
    last_index,     \* RingBuffer.last_index : CircularIndex [index, size]
    data,           \* RingBuffer.data : Data [data, uninitialized]
    generation,     \* RingBuffer.generation
    meta,           \* RingBuffer.meta : ReaderMeta [free, readers]
    free_rx,        \* ids sent by dropped ReaderIds, not yet received
    handles,        \* the live ReaderId values: handles[h] is ReaderId.id
    aborted,        \* a panic has unwound out of an operation
    other,          \* a second RingBuffer of the same process
    foreign,        \* the live ReaderId that `other` handed out: its id
    max_live,       \* history: the largest number of ReaderIds of this buffer
                    \* that were live at the same time
    all_dropped,    \* history: ScenarioReaders ReaderIds, the most so far,
                    \* were live at the same time, and since then there was
                    \* a moment at which no ReaderId was live
    since_drop,    \* history: the number of non-empty writes since the oldest
                    \* drop notification that waits in the channel was sent
    drop_count,     \* history: drop_count[v] = how often a slot that held v was
                    \* destroyed (dropped in place); v = Garbage for a slot
                    \* that held no element
    threads,        \* threads[h]: the thread that reads with the ReaderId of
                    \* handle slot h while other threads read: its position in
                    \* RingBuffer::read (pc), its locals (old, old_gen) and what
                    \* the read returns when the reads run one after the other
                    \* (serial)
    initial_size,   \* history: the size RingBuffer::new was called with
    total,          \* history: number of events written so far
    written,        \* history: written[h] = events written since h was registered
    got,            \* history: got[h] = concatenation of what read returned to h
    unread,         \* history: unread[h] = events written since h's last read
    kept_up,        \* history: at every write so far, every live handle had read everything
    ret             \* history: the last operation and what it returned

vars == <<stepped, usize_bits, available, last_index, data, generation, meta, free_rx,
          handles, aborted, other, foreign, max_live, all_dropped, since_drop,
          drop_count, threads, initial_size, total, written, got, unread,
          kept_up, ret>>

\* usize::MAX + 1
USizeModulus == 2 ^ usize_bits

\* !0, the "magic" index of CircularIndex and the mark of an inactive Reader
SENTINEL == USizeModulus - 1

\* the handle slots of the behaviour
Handles == DOMAIN handles

\* the number of the last event that is written in the behaviour
LastEvent == Cardinality(DOMAIN drop_count) - 1

----------------------------------------------------------------------------
(* CircularIndex                                                           *)

\* impl Add<usize> for CircularIndex; usize addition wraps in a release build
CircAdd(ci, rhs) == ((ci.index + rhs) % USizeModulus) % ci.size

\* impl Sub<usize> for CircularIndex
CircSub(ci, rhs) == ((ci.size - rhs + ci.index) % USizeModulus) % ci.size

\* a step that goes on beyond inclusive_end
step_past_end(ci, inclusive_end) ==
    IF ci.index = SENTINEL
    THEN [r |-> <<>>, ci |-> ci]
    ELSE [r |-> <<ci.index>>, ci |-> [ci EXCEPT !.index = CircAdd(ci, 1)]]

\* CircularIndex::step: the result is <<>> (None) or <<x>> (Some(x))
step(ci, inclusive_end) ==
    IF ci.index = SENTINEL
    THEN [r |-> <<>>, ci |-> ci]
    ELSE IF ci.index = inclusive_end
         THEN [r |-> <<ci.index>>, ci |-> [ci EXCEPT !.index = SENTINEL]]
         ELSE [r |-> <<ci.index>>, ci |-> [ci EXCEPT !.index = CircAdd(ci, 1)]]

----------------------------------------------------------------------------
(* InstanceId and Reference                                                *)

\* InstanceId::as_usize of this RingBuffer and of the second one: the
\* addresses of two allocations that are alive at the same time
instance_id == 1
other_instance_id == 2

\* an assert_eq that lets every Reference pass
assert_eq_any(instance, reference) == TRUE

\* InstanceId::assert_eq: TRUE when it returns, FALSE when it panics
assert_eq(instance, reference) == instance = reference

----------------------------------------------------------------------------
(* Data                                                                    *)

\* slot content that was never written
Garbage == 0

\* Data::new followed by the grow(0, size) it calls
DataNew(sz) == [data |-> [i \in 0 .. sz - 1 |-> Garbage], uninitialized |-> sz]

\* a put that replaces, and so destroys, what the slot holds in every case
put_always_replaces(d, cursor, elem) ==
    [d |-> [data |-> [d.data EXCEPT ![cursor] = elem],
            uninitialized |-> IF d.uninitialized > 0
                              THEN d.uninitialized - 1 ELSE 0],
     destroyed |-> {d.data[cursor]}]

\* Data::put: the result also tells which element was destroyed, if any
put(d, cursor, elem) ==
    IF d.uninitialized > 0
    THEN [d |-> [data |-> [d.data EXCEPT ![cursor] = elem],
                 uninitialized |-> d.uninitialized - 1],
          destroyed |-> {}]
    ELSE [d |-> [d EXCEPT !.data[cursor] = elem],
          destroyed |-> {d.data[cursor]}]

\* a grow that appends fresh memory and moves nothing
grow_no_move(d, cursor, by) ==
    LET n == Cardinality(DOMAIN d.data)
    IN  [data |-> [i \in 0 .. n + by - 1 |-> IF i < n THEN d.data[i] ELSE Garbage],
         uninitialized |-> d.uninitialized + by]

\* Data::grow: the slots [cursor, len) are copied to [cursor + by, len + by);
\* the copy leaves the source bits in place and [len, cursor + by) is fresh
\* memory
grow(d, cursor, by) ==
    LET n == Cardinality(DOMAIN d.data)
    IN  [data |-> [i \in 0 .. n + by - 1 |->
                     IF i < n THEN d.data[i]
                     ELSE IF i >= cursor + by THEN d.data[i - by]
                     ELSE Garbage],
         uninitialized |-> d.uninitialized + by]

\* the loop of Data::clean: the values of the slots it drops in place, in
\* order, and the count of uninitialized slots it ends with
RECURSIVE clean_loop(_, _, _)
clean_loop(d, ci, end) ==
    LET s == step(ci, end)
    IN  IF s.r = <<>>
        THEN [uninitialized |-> d.uninitialized, drops |-> <<>>]
        ELSE IF d.uninitialized > 0
             THEN clean_loop([d EXCEPT !.uninitialized = @ - 1], s.ci, end)
             ELSE [clean_loop(d, s.ci, end) EXCEPT
                      !.drops = <<d.data[s.r[1]]>> \o @]

\* Data::clean: the result is the Data, of length 0, and the values dropped
clean(d, cursor) ==
    LET ci == [index |-> cursor, size |-> Cardinality(DOMAIN d.data)]
        l == clean_loop(d, ci, CircSub(ci, 1))
    IN  [d |-> [data |-> <<>>, uninitialized |-> l.uninitialized],
         drops |-> l.drops]

----------------------------------------------------------------------------
(* Reader and ReaderMeta                                                   *)

\* Reader::active
active(reader) == reader.last_index # SENTINEL

\* Reader::set_inactive
set_inactive(reader) == [reader EXCEPT !.last_index = SENTINEL]

\* distance_from without the generation test: a reader at the writer's
\* position always counts as a full ring behind
distance_from_no_generation(reader, last, current_gen) ==
    CircSub([index |-> reader.last_index, size |-> last.size], last.index)

\* Reader::distance_from
distance_from(reader, last, current_gen) ==
    LET this == [index |-> reader.last_index, size |-> last.size]
        d == CircSub(this, last.index)
    IN  IF d = 0 /\ reader.generation = current_gen THEN last.size ELSE d

\* a needs_shift that leaves a reader at the writer's index where it is
needs_shift_behind_only(reader, last_idx, current_gen) ==
    reader.last_index > last_idx

\* Reader::needs_shift
needs_shift(reader, last_idx, current_gen) ==
    \/ reader.last_index > last_idx
    \/ (reader.last_index = last_idx /\ reader.generation # current_gen)

\* ReaderMeta::new
ReaderMetaNew == [free |-> <<>>, readers |-> <<>>]

\* the Reader stored under an id (ids count from 0)
reader_exclusive(m, id) == m.readers[id + 1]

\* the ids of the active entries of the registry
ActiveIds(m) == {id \in 0 .. Len(m.readers) - 1 : active(reader_exclusive(m, id))}

\* has_reader that counts the entries of dropped readers too
has_reader_any_entry(m) == Len(m.readers) > 0

\* ReaderMeta::has_reader
has_reader(m) == \E id \in 0 .. Len(m.readers) - 1 : active(reader_exclusive(m, id))

\* alloc that leaves the generation of a reused entry as it was
alloc_keeps_generation(m, last_idx, gen) ==
    IF Len(m.free) > 0
    THEN LET id == m.free[Len(m.free)]
         IN  [meta |-> [free |-> SubSeq(m.free, 1, Len(m.free) - 1),
                        readers |-> [m.readers EXCEPT
                                       ![id + 1].last_index = last_idx]],
              id |-> id]
    ELSE [meta |-> [free |-> m.free,
                    readers |-> Append(m.readers, [generation |-> gen,
                                                   last_index |-> last_idx])],
          id |-> Len(m.readers)]

\* an alloc that leaves the id it takes on the free list
alloc_keeps_free(m, last_idx, gen) ==
    IF Len(m.free) > 0
    THEN LET id == m.free[Len(m.free)]
         IN  [meta |-> [free |-> m.free,
                        readers |-> [m.readers EXCEPT
                                       ![id + 1] = [generation |-> gen,
                                                    last_index |-> last_idx]]],
              id |-> id]
    ELSE [meta |-> [free |-> m.free,
                    readers |-> Append(m.readers, [generation |-> gen,
                                                   last_index |-> last_idx])],
          id |-> Len(m.readers)]

\* an alloc that never takes an id from the free list
alloc_always_push(m, last_idx, gen) ==
    [meta |-> [free |-> m.free,
               readers |-> Append(m.readers, [generation |-> gen,
                                              last_index |-> last_idx])],
     id |-> Len(m.readers)]

\* ReaderMeta::alloc: the result is the new registry and the id
alloc(m, last_idx, gen) ==
    IF Len(m.free) > 0
    THEN LET id == m.free[Len(m.free)]
         IN  [meta |-> [free |-> SubSeq(m.free, 1, Len(m.free) - 1),
                        readers |-> [m.readers EXCEPT
                                       ![id + 1] = [generation |-> gen,
                                                    last_index |-> last_idx]]],
              id |-> id]
    ELSE [meta |-> [free |-> m.free,
                    readers |-> Append(m.readers, [generation |-> gen,
                                                   last_index |-> last_idx])],
          id |-> Len(m.readers)]

\* a remove that marks the Reader inactive and forgets the id
remove_forgets_id(m, id) ==
    [free |-> m.free,
     readers |-> [m.readers EXCEPT ![id + 1] = set_inactive(@)]]

\* a remove that puts the id on the free list and leaves the Reader active
remove_keeps_active(m, id) ==
    [free |-> Append(m.free, id), readers |-> m.readers]

\* ReaderMeta::remove
remove(m, id) ==
    [free |-> Append(m.free, id),
     readers |-> [m.readers EXCEPT ![id + 1] = set_inactive(@)]]

\* ReaderMeta::nearest_index: min_by_key returns the first of the nearest
\* readers; the result is <<>> (None) or <<reader>>
nearest_index(m, last, current_gen) ==
    LET ids == ActiveIds(m)
        dist(id) == distance_from(reader_exclusive(m, id), last, current_gen)
    IN  IF ids = {} THEN <<>>
        ELSE LET best == CHOOSE id \in ids :
                            \A o \in ids : \/ dist(id) < dist(o)
                                           \/ (dist(id) = dist(o) /\ id <= o)
             IN  <<reader_exclusive(m, best)>>

\* ReaderMeta::shift
shift(m, last_idx, current_gen, grow_by) ==
    [m EXCEPT !.readers =
        [i \in DOMAIN m.readers |->
            IF active(m.readers[i]) /\ needs_shift(m.readers[i], last_idx, current_gen)
            THEN [m.readers[i] EXCEPT !.last_index = @ + grow_by]
            ELSE m.readers[i]]]

----------------------------------------------------------------------------
(* RingBuffer: the parts of the operations that compute the next buffer    *)

\* the RingBuffer as one value
Self ==
    [available |-> available, last_index |-> last_index, data |-> data,
     generation |-> generation, meta |-> meta, free_rx |-> free_rx]

\* RingBuffer::new
RingBufferNew(sz) ==
    [available |-> sz,
     last_index |-> [index |-> sz - 1, size |-> sz],
     data |-> DataNew(sz),
     generation |-> 0,
     meta |-> ReaderMetaNew,
     free_rx |-> <<>>]

\* a maintain that leaves the notifications in the channel
maintain_none(b) == b

\* maintain with `if let` in the place of `while let`: one id is received
maintain_once(b) ==
    IF b.free_rx = <<>>
    THEN b
    ELSE [b EXCEPT !.meta = remove(b.meta, Head(b.free_rx)),
                   !.free_rx = Tail(b.free_rx)]

\* RingBuffer::maintain
RECURSIVE maintain(_)
maintain(b) ==
    IF b.free_rx = <<>>
    THEN b
    ELSE maintain([b EXCEPT !.meta = remove(b.meta, Head(b.free_rx)),
                            !.free_rx = Tail(b.free_rx)])

\* the loop of ensure_additional_slow that makes size' = 2^n * size
RECURSIVE double_until(_, _)
double_until(sz, min_target_size) ==
    IF sz < min_target_size THEN double_until(sz * 2, min_target_size) ELSE sz

\* growth by what is needed and no more
target_size_exact(sz, min_target_size) == min_target_size

\* the new size ensure_additional_slow grows to
target_size(sz, min_target_size) == double_until(2 * sz, min_target_size)

\* RingBuffer::ensure_additional_slow
ensure_additional_slow(b, num) ==
    LET m == maintain(b)
        nearest == nearest_index(m.meta, m.last_index, m.generation)
    IN  IF nearest = <<>>
        THEN [m EXCEPT !.available = m.last_index.size]
        ELSE LET left == distance_from(nearest[1], m.last_index, m.generation)
             IN  IF left >= num
                 THEN [m EXCEPT !.available = left]
                 ELSE LET min_target_size == m.last_index.size + (num - left)
                          sz == target_size(m.last_index.size, min_target_size)
                          grow_by == sz - m.last_index.size
                      IN  [m EXCEPT
                             !.data = grow(m.data, CircAdd(m.last_index, 1), grow_by),
                             !.last_index.size = sz,
                             !.meta = shift(m.meta, m.last_index.index,
                                            m.generation, grow_by),
                             !.available = grow_by + left]

\* RingBuffer::ensure_additional
ensure_additional(b, num) ==
    IF b.available >= num THEN b ELSE ensure_additional_slow(b, num)

\* the for loop of iter_write: put(last_index + 1, element); last_index += 1.
\* The result also carries the elements the puts destroyed.
RECURSIVE write_loop(_, _, _)
write_loop(d, last, elems) ==
    IF elems = <<>>
    THEN [data |-> d, last_index |-> last, destroyed |-> {}, drops |-> <<>>]
    ELSE LET p == put(d, CircAdd(last, 1), Head(elems))
             rest == write_loop(p.d, [last EXCEPT !.index = CircAdd(last, 1)],
                                Tail(elems))
         IN  [rest EXCEPT !.destroyed = p.destroyed \cup @,
                          !.drops = (IF p.destroyed = {} THEN <<>>
                                     ELSE <<d.data[CircAdd(last, 1)]>>) \o @]

\* StorageIterator::next: the result is the item (<<>> or <<x>>) and the iterator
next(d, it) ==
    LET s == step(it.index, it.end)
    IN  [item |-> IF s.r = <<>> THEN <<>> ELSE <<d.data[s.r[1]]>>,
         it |-> [it EXCEPT !.index = s.ci]]

\* what iterating a StorageIterator to its end yields (Iterator::collect)
RECURSIVE collect(_, _)
collect(d, it) ==
    LET n == next(d, it)
    IN  IF n.item = <<>> THEN <<>> ELSE n.item \o collect(d, n.it)

\* ExactSizeIterator::len of a StorageIterator
iterator_len(it) ==
    IF it.index.index = SENTINEL
    THEN 0
    ELSE CircSub([index |-> it.end, size |-> it.index.size], it.index.index) + 1

\* the results of len before each call of next, up to the call that returns None
RECURSIVE iterator_lens(_, _)
iterator_lens(d, it) ==
    LET n == next(d, it)
    IN  <<iterator_len(it)>> \o (IF n.item = <<>> THEN <<>> ELSE iterator_lens(d, n.it))

\* a cursor update that moves every active reader
read_cursor_all(m, id, last_idx, gen) ==
    [m EXCEPT !.readers =
        [i \in DOMAIN m.readers |->
            IF active(m.readers[i])
            THEN [generation |-> gen, last_index |-> last_idx]
            ELSE m.readers[i]]]

\* ReaderMeta::reader: <<>> (None) or <<reader>>
reader(m, id) == IF id < Len(m.readers) THEN <<m.readers[id + 1]>> ELSE <<>>

\* a store that writes the last_index of every active Reader
store_last_index_all(m, id, index) ==
    [m EXCEPT !.readers =
        [i \in DOMAIN m.readers |->
            IF active(m.readers[i])
            THEN [m.readers[i] EXCEPT !.last_index = index]
            ELSE m.readers[i]]]

\* `reader.last_index = ...` through the &mut Reader of ReaderMeta::reader
store_last_index(m, id, index) ==
    [m EXCEPT !.readers[id + 1].last_index = index]

\* `reader.generation = ...` through the &mut Reader of ReaderMeta::reader
store_generation(m, id, gen) ==
    [m EXCEPT !.readers[id + 1].generation = gen]

\* the cursor update of RingBuffer::read
read_cursor(m, id, last_idx, gen) ==
    [m EXCEPT !.readers[id + 1] = [generation |-> gen, last_index |-> last_idx]]

\* the StorageIterator RingBuffer::read builds for a cursor (old, old_gen)
read_iterator(b, old, old_gen) ==
    LET index == [index |-> CircAdd([index |-> old, size |-> b.last_index.size], 1),
                  size |-> b.last_index.size]
    IN  [end |-> b.last_index.index,
         index |-> IF old_gen = b.generation
                   THEN [index |-> SENTINEL, size |-> index.size]
                   ELSE index]

\* what a read of the reader with this id would return from buffer b
pending(b, id) ==
    collect(b.data, read_iterator(b, reader_exclusive(b.meta, id).last_index,
                                  reader_exclusive(b.meta, id).generation))

----------------------------------------------------------------------------
(* The state machine                                                       *)

\* what an operation leaves in ret
Ret(op, h, len, events, expected, result, destroyed, size_before) ==
    [op |-> op, h |-> h, len |-> len, events |-> events, expected |-> expected,
     result |-> result, destroyed |-> destroyed, size_before |-> size_before,
     \* a write: `available` when ensure_additional has returned
     ensured |-> 0,
     \* a read: ExactSizeIterator::len before each call of next
     lens |-> <<>>]

\* the RingBuffer was dropped: clean has set the length of its data to 0
Dropped == DOMAIN data.data = {}

\* the history of destroyed slots after the slots of drops were destroyed
AddDrops(f, drops) ==
    [v \in DOMAIN f |-> f[v] + Cardinality({i \in DOMAIN drops : drops[i] = v})]

\* a thread that is not in a call of read
Idle == [pc |-> "idle", old |-> 0, old_gen |-> 0, serial |-> <<>>]

\* the live handles
Live == {h \in Handles : handles[h] # NoHandle}

\* how the build treats usize overflow: a debug build panics, a release
\* build wraps
Builds == {"debug", "release"}

SetBuffer(b) ==
    /\ available' = b.available
    /\ last_index' = b.last_index
    /\ data' = b.data
    /\ generation' = b.generation
    /\ meta' = b.meta
    /\ free_rx' = b.free_rx

\* the state after RingBuffer::new(sz) with sz of sizes, on a target whose
\* usize has `bits` bits, in a program that keeps its ReaderIds in the handle
\* slots hs and writes the events 1 .. events
InitWith(bits, sizes, hs, events) ==
    \E sz \in sizes :
        /\ usize_bits = bits
        /\ available = RingBufferNew(sz).available
        /\ last_index = RingBufferNew(sz).last_index
        /\ data = RingBufferNew(sz).data
        /\ generation = RingBufferNew(sz).generation
        /\ meta = RingBufferNew(sz).meta
        /\ free_rx = RingBufferNew(sz).free_rx
        /\ handles = [h \in hs |-> NoHandle]
        /\ aborted = FALSE
        /\ other = RingBufferNew(MinInitSize)
        /\ foreign = NoHandle
        /\ max_live = 0
        /\ all_dropped = FALSE
        /\ since_drop = 0
        /\ drop_count = [v \in 0 .. events |-> 0]
        /\ threads = [h \in Handles |-> Idle]
        /\ initial_size = sz
        /\ total = 0
        /\ written = [h \in Handles |-> <<>>]
        /\ got = [h \in Handles |-> <<>>]
        /\ unread = [h \in Handles |-> <<>>]
        /\ kept_up = [readers |-> TRUE, fits |-> TRUE]
        /\ ret = Ret("new", 0, 0, <<>>, <<>>, FALSE, {}, sz)

\* a CircularIndex of the given size that starts at index and is stepped to
\* inclusive_end
Stepping(index, size, inclusive_end) ==
    [ci |-> [index |-> index, size |-> size], inclusive_end |-> inclusive_end,
     start |-> index, returned |-> <<>>, nones |-> 0]

\* no CircularIndex is stepped on its own: CircularIndex::magic
NotStepped == Stepping(SENTINEL, MinInitSize, 0)

Init ==
    /\ InitWith(USizeBits, MinInitSize .. MaxInitSize, 1 .. MaxHandles,
                MaxEvents)
    /\ stepped = NotStepped

\* a test that takes every batch to have elements
has_elements_always(len) == TRUE

\* `if len > 0` of iter_write
has_elements(len) == len > 0

\* RingBuffer::iter_write with an iterator of len elements, called as op.
\* `available -= len` underflows when ensure_additional left less than len:
\* the debug build panics there, after the elements were put and before the
\* generation is incremented; the release build wraps.
\* (\E x \in {e} binds x to the value of e, which is then computed once.)
write(op, len) ==
    /\ ~aborted /\ ~Dropped
    /\ total + len <= LastEvent
    /\ \E b1 \in {IF has_elements(len) THEN ensure_additional(Self, len) ELSE Self} :
       \E w \in {write_loop(b1.data, b1.last_index, [i \in 1 .. len |-> total + i])} :
       LET elems == [i \in 1 .. len |-> total + i]
           underflow == has_elements(len) /\ b1.available < len
       IN  \E build \in IF underflow THEN Builds ELSE {"any"} :
             /\ IF ~has_elements(len)
                THEN UNCHANGED <<available, last_index, data, generation, meta,
                                free_rx, aborted>>
                ELSE /\ data' = w.data
                     /\ last_index' = w.last_index
                     /\ meta' = b1.meta
                     /\ free_rx' = b1.free_rx
                     /\ IF underflow /\ build = "debug"
                        THEN /\ aborted' = TRUE
                             /\ available' = b1.available
                             /\ generation' = generation
                        ELSE /\ aborted' = FALSE
                             /\ available' = (b1.available - len + USizeModulus)
                                                % USizeModulus
                             /\ generation' = (generation + 1) % USizeModulus
             /\ total' = total + len
             /\ written' = [h \in Handles |->
                              IF h \in Live THEN written[h] \o elems ELSE written[h]]
             /\ unread' = [h \in Handles |->
                             IF h \in Live THEN unread[h] \o elems ELSE unread[h]]
             /\ kept_up' = IF len = 0 THEN kept_up
                           ELSE [readers |-> kept_up.readers
                                             /\ \A h \in Live : unread[h] = <<>>,
                                 fits |-> kept_up.fits /\ len <= last_index.size]
             /\ ret' = [Ret(op, 0, len, <<>>, <<>>, FALSE, w.destroyed,
                            last_index.size) EXCEPT !.ensured = b1.available]
             /\ since_drop' = IF ~has_elements(len) THEN since_drop
                              ELSE IF b1.free_rx = <<>> THEN 0
                              ELSE since_drop + 1
             /\ drop_count' = AddDrops(drop_count, w.drops)
             /\ UNCHANGED <<handles, other, foreign, max_live, all_dropped,
                            initial_size, usize_bits, stepped, threads, got>>

\* RingBuffer::iter_write / EventChannel::iter_write
iter_write(len) == write("write", len)

\* RingBuffer::drain_vec_write / EventChannel::drain_vec_write
drain_vec_write(len) == write("write", len)

\* RingBuffer::single_write / EventChannel::single_write
single_write == write("write", 1)

\* RingBuffer::would_write / EventChannel::would_write
would_write ==
    /\ ~aborted /\ ~Dropped
    /\ \E m \in {maintain(Self)} :
           /\ SetBuffer(m)
           /\ ret' = Ret("would_write", 0, 0, <<>>, <<>>, has_reader(m.meta), {},
                         last_index.size)
    /\ since_drop' = 0
    /\ UNCHANGED <<handles, aborted, other, foreign, max_live, all_dropped,
                   drop_count, initial_size, usize_bits, stepped, threads,
                   total, written, got, unread, kept_up>>

\* RingBuffer::new_reader_id / EventChannel::register_reader; the new
\* ReaderId is kept in the first empty handle slot
new_reader_id(h) ==
    /\ ~aborted /\ ~Dropped
    /\ handles[h] = NoHandle
    /\ \A g \in Handles : g < h => handles[g] # NoHandle
    /\ \E m \in {maintain(Self)} :
       \E a \in {alloc(m.meta, m.last_index.index, m.generation)} :
           /\ SetBuffer([m EXCEPT !.meta = a.meta])
           /\ handles' = [handles EXCEPT ![h] = a.id]
           \* result: the id was taken from the free list
           /\ ret' = Ret("new_reader_id", h, 0, <<>>, <<>>,
                         a.id < Len(m.meta.readers), {}, last_index.size)
    /\ written' = [written EXCEPT ![h] = <<>>]
    /\ got' = [got EXCEPT ![h] = <<>>]
    /\ unread' = [unread EXCEPT ![h] = <<>>]
    /\ max_live' = IF Cardinality(Live) + 1 > max_live
                   THEN Cardinality(Live) + 1 ELSE max_live
    /\ all_dropped' = (all_dropped /\ Cardinality(Live) + 1 <= max_live)
    /\ since_drop' = 0
    /\ UNCHANGED <<aborted, other, foreign, drop_count, initial_size,
                   usize_bits, stepped, threads, total, kept_up>>

\* RingBuffer::read / EventChannel::read with the ReaderId of handle slot h,
\* and the iteration of the StorageIterator it returns.  The ReaderIds of
\* `handles` were handed out by this buffer: their reference is instance_id.
read(h) ==
    /\ ~aborted /\ ~Dropped
    /\ handles[h] # NoHandle
    /\ LET id == handles[h]
       IN  IF ~assert_eq(instance_id, instance_id) \/ id >= Len(meta.readers)
           THEN \* "ReaderId not registered"
                /\ aborted' = TRUE
                /\ ret' = Ret("read", h, 0, <<>>, unread[h], FALSE, {},
                              last_index.size)
                /\ UNCHANGED <<available, last_index, data, generation, meta,
                               free_rx, got, unread>>
           ELSE \E it \in {read_iterator(Self,
                                       reader_exclusive(meta, id).last_index,
                                       reader_exclusive(meta, id).generation)} :
                \E events \in {collect(data, it)} :
                    /\ meta' = read_cursor(meta, id, last_index.index, generation)
                    /\ ret' = [Ret("read", h, Len(events), events, unread[h],
                                   FALSE, {}, last_index.size)
                                  EXCEPT !.lens = iterator_lens(data, it)]
                    /\ got' = [got EXCEPT ![h] = @ \o events]
                    /\ unread' = [unread EXCEPT ![h] = <<>>]
                    /\ UNCHANGED <<available, last_index, data, generation,
                                   free_rx, aborted>>
    /\ UNCHANGED <<handles, other, foreign, max_live, all_dropped, since_drop,
                   drop_count, initial_size, usize_bits, stepped, threads,
                   total, written, kept_up>>

\* Drop for ReaderId: the id is sent to the buffer
drop_reader(h) ==
    /\ ~aborted /\ ~Dropped
    /\ handles[h] # NoHandle
    /\ free_rx' = Append(free_rx, handles[h])
    /\ handles' = [handles EXCEPT ![h] = NoHandle]
    /\ ret' = Ret("drop", h, 0, <<>>, <<>>, FALSE, {}, last_index.size)
    /\ written' = [written EXCEPT ![h] = <<>>]
    /\ got' = [got EXCEPT ![h] = <<>>]
    /\ unread' = [unread EXCEPT ![h] = <<>>]
    /\ all_dropped' = (all_dropped
                       \/ (Live = {h} /\ max_live = ScenarioReaders))
    /\ UNCHANGED <<available, last_index, data, generation, meta, aborted,
                   other, foreign, max_live, since_drop, drop_count,
                   initial_size, usize_bits, stepped, threads, total, kept_up>>

\* RingBuffer::new_reader_id of the second buffer
other_new_reader_id ==
    /\ ~aborted /\ ~Dropped
    /\ foreign = NoHandle
    /\ \E m \in {maintain(other)} :
       \E a \in {alloc(m.meta, m.last_index.index, m.generation)} :
           /\ other' = [m EXCEPT !.meta = a.meta]
           /\ foreign' = a.id
    /\ ret' = Ret("other_new_reader_id", 0, 0, <<>>, <<>>, FALSE, {},
                  last_index.size)
    /\ UNCHANGED <<available, last_index, data, generation, meta, free_rx,
                   handles, aborted, max_live, all_dropped, since_drop,
                   drop_count, initial_size, usize_bits, stepped, threads,
                   total, written, got, unread, kept_up>>

\* RingBuffer::read of this buffer, called with the ReaderId that the second
\* buffer handed out
read_foreign ==
    /\ ~aborted /\ ~Dropped
    /\ foreign # NoHandle
    /\ IF ~assert_eq(instance_id, other_instance_id) \/ foreign >= Len(meta.readers)
       THEN /\ aborted' = TRUE
            /\ meta' = meta
       ELSE /\ aborted' = FALSE
            /\ meta' = read_cursor(meta, foreign, last_index.index, generation)
    /\ ret' = Ret("read_misuse", 0, 0, <<>>, <<>>, FALSE, {}, last_index.size)
    /\ UNCHANGED <<available, last_index, data, generation, free_rx, handles,
                   other, foreign, max_live, all_dropped, since_drop,
                   drop_count, initial_size, usize_bits, stepped, threads,
                   total, written, got, unread, kept_up>>

\* RingBuffer::read of the second buffer, called with the ReaderId of handle
\* slot h, which this buffer handed out
other_read(h) ==
    /\ ~aborted /\ ~Dropped
    /\ handles[h] # NoHandle
    /\ IF ~assert_eq(other_instance_id, instance_id)
          \/ handles[h] >= Len(other.meta.readers)
       THEN /\ aborted' = TRUE
            /\ other' = other
       ELSE /\ aborted' = FALSE
            /\ other' = [other EXCEPT !.meta = read_cursor(other.meta, handles[h],
                                               other.last_index.index,
                                               other.generation)]
    /\ ret' = Ret("read_misuse", h, 0, <<>>, <<>>, FALSE, {}, last_index.size)
    /\ UNCHANGED <<available, last_index, data, generation, meta, free_rx,
                   handles, foreign, max_live, all_dropped, since_drop,
                   drop_count, initial_size, usize_bits, stepped, threads,
                   total, written, got, unread, kept_up>>

\* Drop for RingBuffer, also when a panic unwinds out of an operation
teardown ==
    /\ ~Dropped
    /\ \E c \in {clean(data, CircAdd(last_index, 1))} :
           /\ data' = c.d
           /\ drop_count' = AddDrops(drop_count, c.drops)
    /\ ret' = Ret("drop_buffer", 0, 0, <<>>, <<>>, FALSE, {}, last_index.size)
    /\ UNCHANGED <<available, last_index, generation, meta, free_rx, handles,
                   aborted, other, foreign, max_live, all_dropped, since_drop,
                   initial_size, usize_bits, stepped, threads, total, written,
                   got, unread, kept_up>>

\* no thread is in a call of read or holds the iterator of one: what
\* `&mut self` asks of the caller of every operation but read
AllIdle == \A h \in Handles : threads[h].pc = "idle"

\* RingBuffer::read called on a shared buffer by the thread of handle slot h,
\* one access of the Reader at a time.  First assert_eq, ReaderMeta::reader
\* and `let old = reader.last_index`.  The first of the threads to call also
\* notes what every live reader gets when the reads run one after the other.
read_lookup(h) ==
    /\ ~aborted /\ ~Dropped
    /\ handles[h] # NoHandle
    /\ threads[h].pc = "idle"
    /\ assert_eq(instance_id, instance_id)
    /\ reader(meta, handles[h]) # <<>>
    /\ threads' = [g \in Handles |->
                     LET t == IF g = h
                              THEN [threads[g] EXCEPT
                                      !.pc = "old",
                                      !.old = reader(meta, handles[h])[1].last_index]
                              ELSE threads[g]
                     IN  IF AllIdle /\ g \in Live
                         THEN [t EXCEPT !.serial = pending(Self, handles[g])]
                         ELSE t]
    /\ ret' = Ret("read_lookup", h, 0, <<>>, <<>>, FALSE, {}, last_index.size)
    /\ UNCHANGED <<available, last_index, data, generation, meta, free_rx,
                   handles, aborted, other, foreign, max_live, all_dropped,
                   since_drop, drop_count, initial_size, usize_bits, stepped,
                   total, written, got, unread, kept_up>>

\* `reader.last_index = self.last_index.index`
read_store_last_index(h) ==
    /\ threads[h].pc = "old"
    /\ meta' = store_last_index(meta, handles[h], last_index.index)
    /\ threads' = [threads EXCEPT ![h].pc = "stored"]
    /\ ret' = Ret("read_store", h, 0, <<>>, <<>>, FALSE, {}, last_index.size)
    /\ UNCHANGED <<available, last_index, data, generation, free_rx, handles,
                   aborted, other, foreign, max_live, all_dropped, since_drop,
                   drop_count, initial_size, usize_bits, stepped, total,
                   written, got, unread, kept_up>>

\* `let old_gen = reader.generation`
read_load_generation(h) ==
    /\ threads[h].pc = "stored"
    /\ threads' = [threads EXCEPT
                     ![h].pc = "old_gen",
                     ![h].old_gen = reader(meta, handles[h])[1].generation]
    /\ ret' = Ret("read_load", h, 0, <<>>, <<>>, FALSE, {}, last_index.size)
    /\ UNCHANGED <<available, last_index, data, generation, meta, free_rx,
                   handles, aborted, other, foreign, max_live, all_dropped,
                   since_drop, drop_count, initial_size, usize_bits, stepped,
                   total, written, got, unread, kept_up>>

\* `reader.generation = self.generation.0`
read_store_generation(h) ==
    /\ threads[h].pc = "old_gen"
    /\ meta' = store_generation(meta, handles[h], generation)
    /\ threads' = [threads EXCEPT ![h].pc = "iterator"]
    /\ ret' = Ret("read_store", h, 0, <<>>, <<>>, FALSE, {}, last_index.size)
    /\ UNCHANGED <<available, last_index, data, generation, free_rx, handles,
                   aborted, other, foreign, max_live, all_dropped, since_drop,
                   drop_count, initial_size, usize_bits, stepped, total,
                   written, got, unread, kept_up>>

\* the StorageIterator is built from the locals, returned and iterated; the
\* thread keeps it until the threads are joined
read_iterate(h) ==
    /\ threads[h].pc = "iterator"
    /\ \E events \in {collect(data, read_iterator(Self, threads[h].old,
                                                   threads[h].old_gen))} :
           /\ ret' = Ret("read_shared", h, Len(events), events,
                         threads[h].serial, FALSE, {}, last_index.size)
           /\ got' = [got EXCEPT ![h] = @ \o events]
    /\ unread' = [unread EXCEPT ![h] = <<>>]
    /\ threads' = [threads EXCEPT ![h].pc = "returned"]
    /\ UNCHANGED <<available, last_index, data, generation, meta, free_rx,
                   handles, aborted, other, foreign, max_live, all_dropped,
                   since_drop, drop_count, initial_size, usize_bits, stepped,
                   total, written, kept_up>>

\* the threads that read have returned and dropped their iterators
join ==
    /\ ~AllIdle
    /\ \A h \in Handles : threads[h].pc \in {"idle", "returned"}
    /\ threads' = [h \in Handles |-> Idle]
    /\ ret' = Ret("join", 0, 0, <<>>, <<>>, FALSE, {}, last_index.size)
    /\ UNCHANGED <<available, last_index, data, generation, meta, free_rx,
                   handles, aborted, other, foreign, max_live, all_dropped,
                   since_drop, drop_count, initial_size, usize_bits, stepped,
                   total, written, got, unread, kept_up>>

Next ==
    \/ \E len \in 0 .. MaxBatch : iter_write(len)
    \/ \E len \in 0 .. MaxBatch : drain_vec_write(len)
    \/ single_write
    \/ would_write
    \/ \E h \in Handles : new_reader_id(h)
    \/ \E h \in Handles : read(h)
    \/ \E h \in Handles : drop_reader(h)

Spec == Init /\ [][Next]_vars

\* the channel together with a second channel and the reads that take the
\* ReaderId of the one to the other.  Writes are made with iter_write, which
\* drain_vec_write and single_write call.
NextMisuse ==
    \/ \E len \in 0 .. MaxBatch : iter_write(len)
    \/ would_write
    \/ \E h \in Handles : new_reader_id(h)
    \/ \E h \in Handles : read(h)
    \/ \E h \in Handles : drop_reader(h)
    \/ other_new_reader_id
    \/ read_foreign
    \/ \E h \in Handles : other_read(h)

\* the events of the behaviours with the second channel: one full batch
InitMisuse ==
    /\ InitWith(USizeBits, MinInitSize .. MaxInitSize, 1 .. MaxHandles,
                MaxBatch)
    /\ stepped = NotStepped

SpecMisuse == InitMisuse /\ [][NextMisuse]_vars

\* the channel and its end: the RingBuffer is dropped
NextTeardown == Next \/ teardown

SpecTeardown == Init /\ [][NextTeardown]_vars

\* the channel shared by threads that read at the same time, each with its
\* own ReaderId; writes and registrations have the channel to themselves
NextShared ==
    \/ AllIdle /\ \E len \in 1 .. MaxBatch : iter_write(len)
    \/ AllIdle /\ \E h \in Handles : new_reader_id(h)
    \/ \E h \in Handles : read_lookup(h)
    \/ \E h \in Handles : read_store_last_index(h)
    \/ \E h \in Handles : read_load_generation(h)
    \/ \E h \in Handles : read_store_generation(h)
    \/ \E h \in Handles : read_iterate(h)
    \/ join

SpecShared == Init /\ [][NextShared]_vars

\* A program on a target with a small usize, so that the generation counter
\* wraps within a behaviour: one reader, that is registered, reads and is
\* dropped, and batches that are written.  A write that makes the buffer grow
\* to a size that usize cannot hold (the allocation fails) is left out.
InitWrap ==
    /\ InitWith(WrapBits, {MinInitSize}, 1 .. 1, WrapEvents)
    /\ stepped = NotStepped

NextWrap ==
    \/ \E len \in 1 .. MaxBatch :
          iter_write(len) /\ last_index'.size < USizeModulus
    \/ \E h \in Handles : new_reader_id(h)
    \/ \E h \in Handles : read(h)
    \/ \E h \in Handles : drop_reader(h)

SpecWrap == InitWrap /\ [][NextWrap]_vars

\* The program of the tests all_dropped, recreated and test_reader_reuse: a
\* buffer of capacity 3 and up to three ReaderIds that are registered and
\* dropped, would_write and reads in between; nothing is written.
InitReuse ==
    /\ InitWith(USizeBits, {ScenarioCapacity}, 1 .. ScenarioReaders, 0)
    /\ stepped = NotStepped

NextReuse ==
    \/ would_write
    \/ \E h \in Handles : new_reader_id(h)
    \/ \E h \in Handles : read(h)
    \/ \E h \in Handles : drop_reader(h)

SpecReuse == InitReuse /\ [][NextReuse]_vars

\* CircularIndex::step called again and again on a CircularIndex: the result
\* is appended to the positions returned so far, or counted when it is None
step_call ==
    /\ stepped.nones < MaxNones
    /\ \E s \in {step(stepped.ci, stepped.inclusive_end)} :
          stepped' = [stepped EXCEPT
                        !.ci = s.ci,
                        !.returned = @ \o s.r,
                        !.nones = IF s.r = <<>> THEN @ + 1 ELSE @]
    /\ UNCHANGED <<usize_bits, available, last_index, data, generation, meta,
                   free_rx, handles, aborted, other, foreign, max_live,
                   all_dropped, since_drop, drop_count, threads, initial_size,
                   total, written, got, unread, kept_up, ret>>

\* A CircularIndex on its own: a ring of any size up to MaxRing, a start that
\* is a position of the ring or the magic value, and an end that is a position
\* of the ring.  The buffer is not used.
InitStep ==
    /\ InitWith(USizeBits, {MinInitSize}, 1 .. 1, 0)
    /\ \E size \in 1 .. MaxRing :
       \E index \in (0 .. size - 1) \cup {SENTINEL} :
       \E inclusive_end \in 0 .. size - 1 :
           stepped = Stepping(index, size, inclusive_end)

NextStep == step_call

SpecStep == InitStep /\ [][NextStep]_vars

----------------------------------------------------------------------------
(* Properties                                                              *)

Range(f) == {f[i] : i \in DOMAIN f}

\* the Reader of the registry that belongs to the live handle h
Cursor(h) == reader_exclusive(meta, handles[h])

\* C1: what the successive reads of a live reader returned, followed by the
\* events written since its last read, is the sequence of the events written
\* since its registration: no event is lost, duplicated or reordered.
C1_NoLossInOrder ==
    \A h \in Live : got[h] \o unread[h] = written[h]

\* C2: a write of any batch size, in any state, runs to completion without a
\* panic and leaves a valid buffer (available within the capacity).
C2_WritesCannotFail ==
    ret.op = "write" => (~aborted /\ available <= last_index.size)

\* C3: a reader never gets an event written before its registration, and its
\* read made before any write that follows the registration is empty.
C3_RegistrationCutOff ==
    \A h \in Live :
        /\ \A i \in DOMAIN got[h] : got[h][i] > total - Len(written[h])
        /\ (ret.op = "read" /\ ret.h = h /\ written[h] = <<>>) => ret.events = <<>>

\* a reader that reuses the registry entry of a dropped reader, registered
\* after events were written, has made its first read
C3_Witness ==
    /\ ret.op = "read" /\ ret.h = 2 /\ handles[2] = 0
    /\ written[2] = <<>> /\ total > 0 /\ ret.events = <<>>

\* C4: read moves the cursor of its reader to (last_index, generation) and
\* returns exactly the events written since the previous read of that reader
\* (nothing, when there was no write in between).
C4_AdvanceOnCall ==
    (ret.op = "read" /\ ~aborted) =>
        /\ Cursor(ret.h).last_index = last_index.index
        /\ Cursor(ret.h).generation = generation
        /\ ret.events = ret.expected

\* C5: a read changes the cursor of its own reader and nothing else of the
\* buffer: not the other cursors, the free list, last_index, generation,
\* available, the capacity or the stored elements.
C5_ReaderIndependence ==
    [][ret'.op = "read" =>
          /\ available' = available
          /\ last_index' = last_index
          /\ generation' = generation
          /\ data' = data
          /\ free_rx' = free_rx
          /\ meta'.free = meta.free
          /\ Len(meta'.readers) = Len(meta.readers)
          /\ \A id \in 0 .. Len(meta.readers) - 1 :
                id # handles[ret'.h] =>
                    reader_exclusive(meta', id) = reader_exclusive(meta, id)
          /\ \A h \in Handles \ {ret'.h} :
                written'[h] = written[h] /\ unread'[h] = unread[h]]_vars

\* a reader has read events while another live reader still has unread ones
C5_Witness ==
    /\ ret.op = "read" /\ ret.events # <<>>
    /\ \E h \in Live \ {ret.h} : unread[h] # <<>>

\* C6: an element that a write replaces was returned by read to every live
\* reader that was registered before that element was written.
C6_NoOverwriteOfUnread ==
    ret.op = "write" =>
        \A h \in Live : \A e \in ret.destroyed :
            e \in Range(written[h]) => e \in Range(got[h])

\* C7: would_write returns true exactly when a reader handle is live.
C7_WouldWriteIffLive ==
    ret.op = "would_write" => (ret.result <=> Live # {})

\* would_write has returned false after readers were registered and dropped
\* and events were written
C7_Witness ==
    /\ ret.op = "would_write" /\ ~ret.result
    /\ Len(meta.readers) > 0 /\ total > 0

\* C8: a write grows the buffer only when a live reader would otherwise be
\* overrun; with no live handle would_write is false and no write grows.
C8_DroppedNeverGrow ==
    /\ (ret.op = "write" /\ last_index.size # ret.size_before) =>
            \E h \in Live : Len(unread[h]) > ret.size_before
    /\ (ret.op = "would_write" /\ Live = {}) => ~ret.result

\* every reader was dropped, the buffer has received their ids, and a batch of
\* several events has been written without growth
C8_Witness ==
    /\ ret.op = "write" /\ Live = {} /\ ~aborted
    /\ Len(meta.free) = 2 /\ ret.len > 1
    /\ last_index.size = ret.size_before

\* C9 as stated: when every live reader has read everything at every write,
\* the capacity stays at its initial value.
C9_KeptUpNeverGrows ==
    kept_up.readers => last_index.size = initial_size

\* C9 amended: when every live reader has read everything at every write and
\* no batch was larger than the capacity, the capacity stays at its initial
\* value.
C9_KeptUpFittingNeverGrows ==
    (kept_up.readers /\ kept_up.fits) => last_index.size = initial_size

\* a reader that kept up has received more than two rings of events
C9_Witness ==
    /\ kept_up.readers /\ kept_up.fits
    /\ \E h \in Live : Len(got[h]) > 2 * initial_size

RECURSIVE IsPow2Multiple(_, _)
IsPow2Multiple(n, base) ==
    \/ n = base
    \/ (n > base /\ n % 2 = 0 /\ IsPow2Multiple(n \div 2, base))

\* C10: the capacity is the initial capacity times a power of two, and an
\* operation leaves it as it was or at least doubles it.
C10_CapacityPow2Monotone ==
    /\ IsPow2Multiple(last_index.size, initial_size)
    /\ \/ last_index.size = ret.size_before
       \/ last_index.size >= 2 * ret.size_before

\* the buffer has grown to four times its initial capacity
C10_Witness == last_index.size >= 4 * initial_size

\* C11: a read with the ReaderId of another buffer panics and changes
\* nothing: not the registry, the cursors or the data of either buffer, and
\* not the handles.
C11_MisuseTrapped ==
    [][ret'.op = "read_misuse" =>
          /\ aborted'
          /\ UNCHANGED <<available, last_index, data, generation, meta,
                         free_rx, other, handles, foreign>>]_vars

\* a read with a foreign ReaderId has panicked in a buffer that has an active
\* reader with unread events under the id of that ReaderId
C11_Witness ==
    /\ ret.op = "read_misuse" /\ aborted
    /\ foreign \in ActiveIds(meta)
    /\ \E h \in Live : handles[h] = foreign /\ unread[h] # <<>>

\* C12: a write of an empty batch changes nothing of the buffer: generation,
\* last index, available, capacity, data, uninitialized count, registry and
\* pending drop notifications stay as they are, and so does what each reader
\* has still to read.
C12_EmptyWriteNoOp ==
    [][(ret'.op = "write" /\ ret'.len = 0) =>
          /\ UNCHANGED <<available, last_index, data, generation, meta,
                         free_rx, aborted>>
          /\ UNCHANGED <<handles, unread>>]_vars

\* an empty batch was written to a buffer that holds events, has a reader with
\* unread events and has a drop notification pending
C12_Witness ==
    /\ ret.op = "write" /\ ret.len = 0
    /\ total > 0
    /\ free_rx # <<>>
    /\ \E h \in Live : unread[h] # <<>>

\* C13: the iterator of a read reports as its length the number of events
\* written since the reader's previous read, and at every point of the
\* iteration len is the number of items next still yields.
C13_ExactLength ==
    (ret.op = "read" /\ ~aborted) =>
        /\ Len(ret.lens) = Len(ret.events) + 1
        /\ \A i \in 1 .. Len(ret.lens) : ret.lens[i] = Len(ret.events) - (i - 1)
        /\ ret.lens[1] = Len(ret.expected)

\* the number of slots the writer of buffer b may fill before it reaches the
\* nearest active reader: the capacity when there is none
free_slots(b) ==
    LET nearest == nearest_index(b.meta, b.last_index, b.generation)
    IN  IF nearest = <<>>
        THEN b.last_index.size
        ELSE distance_from(nearest[1], b.last_index, b.generation)

C17_NeverOptimistic == available <= free_slots(Self)

\* C18: `available` stays within 0 .. capacity, and ensure_additional(n)
\* leaves at least n, so that the subtraction of n cannot underflow.
C18_AvailableInRange ==
    /\ available \in 0 .. last_index.size
    /\ (ret.op = "write" /\ has_elements(ret.len)) => ret.ensured >= ret.len

\* C19: for every live reader the number u of events written since its last
\* read is at most the capacity, and the distance of its cursor from the
\* writer is capacity - u.
C19_CursorUnread ==
    \A h \in Live :
        handles[h] < Len(meta.readers) =>
            /\ Len(unread[h]) \in 0 .. last_index.size
            /\ distance_from(Cursor(h), last_index, generation)
                  = last_index.size - Len(unread[h])

\* C14: the registry never has more entries than the largest number of
\* ReaderIds that were live at the same time: the entries of dropped readers
\* are used again.
C14_EntriesRecycled == Len(meta.readers) <= max_live

\* a registration has taken the entry of a dropped reader from the free list
C14_Witness ==
    /\ ret.op = "new_reader_id" /\ ret.result
    /\ handles[ret.h] \in ActiveIds(meta)
    /\ Len(meta.readers) = max_live

\* the live handles that hold the id of a registry entry
HandlesOf(id) == {h \in Handles : handles[h] = id}

\* the drop notifications of an id that wait in the channel
PendingOf(id) == {i \in DOMAIN free_rx : free_rx[i] = id}

\* C15 as stated: in every state each active registry entry has exactly one
\* live handle.
C15_OneHandlePerActiveEntry ==
    \A id \in ActiveIds(meta) : Cardinality(HandlesOf(id)) = 1

\* C15: in every state each active registry entry has either exactly one live
\* handle or, its handle dropped, exactly one drop notification waiting in
\* the channel; and an entry becomes inactive only in a step that takes the
\* notification of its dropped handle from the channel.
C15_OneOwnerPerActiveEntry ==
    /\ [](\A id \in ActiveIds(meta) :
             Cardinality(HandlesOf(id)) + Cardinality(PendingOf(id)) = 1)
    /\ [][\A id \in ActiveIds(meta) :
             id \notin ActiveIds(meta') =>
                 /\ HandlesOf(id) = {}
                 /\ PendingOf(id) # {}
                 /\ free_rx' = <<>>]_vars

\* the entry of a dropped reader has become inactive in a call that emptied
\* the channel, while the entry of a live handle is active
C15_Witness ==
    /\ ret.op \in {"write", "would_write"}
    /\ free_rx = <<>>
    /\ meta.free # <<>>
    /\ ActiveIds(meta) # {}

\* C20: the growth step of a write (Data::grow at last_index + 1, then
\* ReaderMeta::shift) leaves what a read of each active reader would return
\* as it was before the step.
C20_GrowthPreservesPending ==
    [][(ret'.op = "write" /\ ret'.size_before < last_index'.size) =>
          \A id \in ActiveIds(maintain(Self).meta) :
              pending(ensure_additional_slow(Self, ret'.len), id)
                = pending(maintain(Self), id)]_vars

\* a write has grown the buffer when the writer was at the last slot, with one
\* reader that had read everything and one that was a full ring behind
C20_Witness ==
    /\ ret.op = "write" /\ ~aborted
    /\ ret.size_before < last_index.size
    /\ last_index.index - ret.len = ret.size_before - 1
    /\ \E h \in Live : Len(unread[h]) = ret.len
    /\ \E h \in Live : Len(unread[h]) = ret.len + ret.size_before

\* to is the smallest from * 2^k, k >= 1, that is at least from + need
IsMinimalTarget(from, to, need) ==
    /\ to >= 2 * from
    /\ IsPow2Multiple(to, from)
    /\ to >= from + need
    /\ (to = 2 * from \/ to \div 2 < from + need)

\* C21: a write of n elements that has only left < n free slots before the
\* nearest active reader grows the buffer to the smallest capacity * 2^k,
\* k >= 1, that is at least capacity + (n - left), and then has
\* available = left + (new capacity - old capacity) >= n; with left >= n the
\* buffer does not grow.
C21_MinimalGrowth ==
    [][(ret'.op = "write" /\ has_elements(ret'.len)) =>
          LET m == maintain(Self)
              left == free_slots(m)
              n == ret'.len
              from == last_index.size
              to == last_index'.size
          IN  IF has_reader(m.meta) /\ left < n
              THEN /\ IsMinimalTarget(from, to, n - left)
                   /\ ret'.ensured = left + (to - from)
                   /\ ret'.ensured >= n
              ELSE has_reader(m.meta) => to = from]_vars

\* C22: a write of a non-empty batch adds one to generation, modulo the word
\* size, whatever the size of the batch; no other operation changes it.
C22_GenerationStep ==
    [][IF ret'.op = "write" /\ has_elements(ret'.len)
       THEN generation' = (generation + 1) % USizeModulus
       ELSE generation' = generation]_vars

\* C23: a drop at any point leaves the registry as it is; the next
\* registration, would_write or slow-path write empties the channel and marks
\* the entries of the dropped handles inactive; and while a notification
\* waits, at most capacity non-empty writes go by.
C23_DropsHonoured ==
    /\ [](since_drop <= last_index.size)
    /\ [][/\ ret'.op = "drop" => (meta' = meta /\ free_rx' # <<>>)
          /\ (ret'.op = "write" /\ available >= ret'.len) =>
                (meta' = meta /\ free_rx' = free_rx)
          /\ (\/ ret'.op \in {"new_reader_id", "would_write"}
              \/ (ret'.op = "write" /\ available < ret'.len)) =>
                /\ free_rx' = <<>>
                /\ \A id \in Range(free_rx) :
                      \/ id \notin ActiveIds(meta')
                      \/ (ret'.op = "new_reader_id" /\ handles'[ret'.h] = id)]_vars

\* C24: the live handles hold pairwise distinct ids, each id is smaller than
\* the length of the registry and its entry is active; so a read with a live
\* handle of this buffer does not panic with "ReaderId not registered".
C24_LiveHandlesValid ==
    /\ \A h \in Live :
          /\ handles[h] \in 0 .. Len(meta.readers) - 1
          /\ handles[h] \in ActiveIds(meta)
          /\ \A g \in Live : g # h => handles[g] # handles[h]
    /\ ret.op = "read" => ~aborted

\* a read has returned events to one of two live handles that were registered
\* at different points
C24_Witness ==
    /\ ret.op = "read" /\ ret.events # <<>>
    /\ Live = Handles
    /\ Len(meta.readers) = MaxHandles
    /\ \E h \in Live : Len(written[h]) < Len(written[ret.h])

\* C25: the free list has no id twice, its ids are exactly the ids of the
\* inactive entries of the registry, and no live handle has its id on it.
C25_FreeListConsistent ==
    /\ \A i, j \in DOMAIN meta.free : i # j => meta.free[i] # meta.free[j]
    /\ Range(meta.free) = (0 .. Len(meta.readers) - 1) \ ActiveIds(meta)
    /\ \A h \in Live : handles[h] \notin Range(meta.free)

\* a registration has taken one of two ids from the free list and the other
\* is still on it
C25_Witness ==
    /\ ret.op = "new_reader_id" /\ ret.result
    /\ meta.free # <<>>
    /\ handles[ret.h] \notin Range(meta.free)

\* C26: every element written is destroyed once, by the put that replaces it
\* or by clean when the buffer is dropped: none twice, none left when the
\* buffer is gone, and no slot that holds no element is destroyed.
C26_DestroyedOnce ==
    /\ drop_count[Garbage] = 0
    /\ \A e \in 1 .. MaxEvents :
          /\ drop_count[e] <= 1
          /\ e > total => drop_count[e] = 0
    /\ Dropped => \A e \in 1 .. total : drop_count[e] = 1

\* a buffer that has grown and has had elements replaced was dropped
C26_Witness ==
    /\ ret.op = "drop_buffer" /\ Dropped
    /\ last_index.size > initial_size
    /\ total > last_index.size

\* the ring positions counted by `uninitialized`, if they are the ones that
\* follow last_index
UninitializedSlots ==
    {CircAdd(last_index, k) : k \in 1 .. data.uninitialized}

\* the positions a StorageIterator yields
RECURSIVE iterator_slots(_)
iterator_slots(it) ==
    LET s == step(it.index, it.end)
    IN  IF s.r = <<>> THEN {}
        ELSE {s.r[1]} \cup iterator_slots([it EXCEPT !.index = s.ci])

\* C27: the `uninitialized` slots are the ring positions that follow
\* last_index, every other slot holds an element that was written and not
\* destroyed, each live reader's unread count plus `uninitialized` is at most
\* the capacity, and no position a read would yield is an uninitialized one.
C27_ReadsOnlyWritten ==
    /\ Cardinality(UninitializedSlots) = data.uninitialized
    /\ \A i \in DOMAIN data.data \ UninitializedSlots :
          /\ data.data[i] \in 1 .. total
          /\ drop_count[data.data[i]] = 0
          /\ \A j \in DOMAIN data.data \ UninitializedSlots :
                data.data[j] = data.data[i] => j = i
    /\ \A h \in Live :
          /\ Len(unread[h]) + data.uninitialized <= last_index.size
          /\ iterator_slots(read_iterator(Self, Cursor(h).last_index,
                                          Cursor(h).generation))
                \cap UninitializedSlots = {}

\* C28: a read that runs while other threads read with other ReaderIds
\* returns what it returns when the reads run one after the other, and
\* leaves its cursor at the writer's position, like them.
C28_SharedReadsAsSerial ==
    ret.op = "read_shared" =>
        /\ ret.events = ret.expected
        /\ Cursor(ret.h) = [generation |-> generation,
                            last_index |-> last_index.index]

\* a read that overlapped with the read of another thread has returned events
C28_Witness ==
    /\ ret.op = "read_shared" /\ ret.events # <<>>
    /\ \E g \in Handles :
          /\ g # ret.h
          /\ threads[g].pc \in {"old", "stored", "old_gen", "iterator"}
          /\ threads[g].serial # <<>>

\* C29: the wrap-around of the generation counter does no harm: a read of a
\* reader that has unread events does not return an empty iterator, and
\* distance_from does not return the capacity for a reader that has unread
\* events.
C29_WrapHarmless ==
    /\ (ret.op = "read" /\ ~aborted /\ ret.expected # <<>>) =>
           ret.events # <<>>
    /\ \A h \in Live :
          unread[h] # <<>> =>
             distance_from(Cursor(h), last_index, generation) # last_index.size

\* C30 as stated: when three readers were registered and all three were
\* dropped, would_write returns false; when then one reader is registered,
\* would_write returns true and the registry has one entry.
C30_RegistryOfOne ==
    (ret.op = "would_write" /\ max_live = ScenarioReaders /\ all_dropped) =>
        /\ Live = {} => ~ret.result
        /\ Cardinality(Live) = 1 => ret.result /\ Len(meta.readers) = 1

\* C30: when three readers were registered and all three were dropped,
\* would_write returns false; when then one reader is registered,
\* would_write returns true and the registry has the three entries it had:
\* the new reader has taken one of them.
C30_RegistryReused ==
    (ret.op = "would_write" /\ max_live = ScenarioReaders /\ all_dropped) =>
        /\ Live = {} => ~ret.result
        /\ Cardinality(Live) = 1 =>
              /\ ret.result
              /\ Len(meta.readers) = ScenarioReaders
              /\ Len(meta.free) = ScenarioReaders - 1

\* three readers were live, all were dropped, one was registered and
\* would_write has returned true
C30_Witness ==
    /\ ret.op = "would_write" /\ ret.result
    /\ max_live = ScenarioReaders /\ all_dropped
    /\ Cardinality(Live) = 1
    /\ Len(meta.readers) = ScenarioReaders

\* the positions of a ring of the given size from start to inclusive_end, in
\* ring order
RingOrder(start, inclusive_end, size) ==
    [i \in 1 .. ((inclusive_end + size - start) % size) + 1 |->
        (start + i - 1) % size]

\* C31: the calls of step on a CircularIndex that starts at a position of
\* the ring return the positions from start to inclusive_end in ring order,
\* each once (all positions of the ring when start is the position after
\* inclusive_end, one position when start is inclusive_end), and None from
\* then on; on a CircularIndex that starts with the magic value every call
\* returns None.
C31_StepContract ==
    IF stepped.start = SENTINEL
    THEN stepped.returned = <<>>
    ELSE LET size == stepped.ci.size
             order == RingOrder(stepped.start, stepped.inclusive_end, size)
             returned == stepped.returned
         IN  /\ Len(returned) <= Len(order)
             /\ \A i \in DOMAIN returned : returned[i] = order[i]
             /\ Cardinality(Range(returned)) = Len(returned)
             /\ stepped.nones > 0 =>
                   /\ returned = order
                   /\ stepped.ci.index = SENTINEL
                   /\ stepped.start = (stepped.inclusive_end + 1) % size =>
                         Range(returned) = 0 .. size - 1
                   /\ stepped.start = stepped.inclusive_end =>
                         returned = <<stepped.start>>

\* step has gone once round a ring of three or more positions, over its
\* last position to position 0 and on, and has then returned None twice
C31_Witness ==
    /\ stepped.ci.size >= 3
    /\ stepped.start \notin {0, SENTINEL}
    /\ stepped.start = (stepped.inclusive_end + 1) % stepped.ci.size
    /\ Len(stepped.returned) = stepped.ci.size
    /\ stepped.nones >= 2

====
